---------------------------- MODULE Spec2Model ----------------------------
(***************************************************************************)
(* The connection lifecycle of the ESP32-C3 Android Auto WiFi bridge       *)
(* (firmware/src/main.cpp): setup(), loop(), setupWiFiAP() and             *)
(* handleClient(), driven by the radio, the TCP listener, the TCP peers    *)
(* and the millisecond clock.                                              *)
(*                                                                         *)
(* One pass of loop() is the sequence of steps                             *)
(*   Loop (clock read, heartbeat) ; LoopSwitch (the switch statement) ;    *)
(*   [DrainStep*]  (the while loop of handleClient) ;                      *)
(*   [SoftAPConfigStep ; SoftAPStep]  (setupWiFiAP, from the ERROR case) ; *)
(*   LoopDelay (delay(10)).                                                *)
(* The peers, the radio and the clock act between the steps.               *)
(***************************************************************************)
EXTENDS Integers, Sequences, FiniteSets, TLC

VARIABLES
    currentState,         \* State currentState
    lastHeartbeat,        \* unsigned long lastHeartbeat
    clientConnectedTime,  \* unsigned long clientConnectedTime
    heartbeatCount,       \* uint32_t heartbeatCount
    aaClient,             \* WiFiClient aaClient: the socket it holds, or NoClient
    listening,            \* aaServer.begin() has been called
    pc,                   \* position of the single thread of control
    fromSetup,            \* setupWiFiAP() was called by setup() (else by loop())
    now,                  \* loop()'s local `now`
    clock,                \* millis()
    backlog,              \* connections established at the listener, not yet accepted
    sock,                 \* per peer: the bridge-side socket of its connection
    radioOk,              \* the radio accepts configuration and activation from now on
    radioLog,             \* the last request made to the radio, and its answer
    failures,             \* history: runs of setupWiFiAP() that ended in ERROR
    gotData,              \* history: a read of this pass returned len > 0
    sessionEnded,         \* history: handleClient() ended the Session in this pass
    lateArrivals,         \* history: peers whose connection became pending while a
                          \* Session was live
    lastEnded,            \* history: currentState when handleClient() last ended a
                          \* Session, "none" before the first
    spent,                \* history: milliseconds passed since the initial state
    sinceBeat             \* history: milliseconds passed since lastHeartbeat was set

vars == << currentState, lastHeartbeat, clientConnectedTime, heartbeatCount, aaClient,
           listening, pc, fromSetup, now, clock, backlog, sock, radioOk, radioLog,
           failures, gotData, sessionEnded, lateArrivals, lastEnded, spent,
           sinceBeat >>

--------------------------------------------------------------------------
(* Configuration (main.cpp lines 21-30) *)

AP_SSID == "AndroidAutoWiFi"
AP_PASSWORD == "android123"
AP_CHANNEL == 6
AP_HIDDEN == FALSE
AP_MAX_CONNECTIONS == 1
AP_IP == << 192, 168, 4, 1 >>
AP_GATEWAY == << 192, 168, 4, 1 >>
AP_SUBNET == << 255, 255, 255, 0 >>

\* The argument lists setupWiFiAP() passes to the radio.
SoftAPConfigCall == << AP_IP, AP_GATEWAY, AP_SUBNET >>
SoftAPCall == << AP_SSID, AP_PASSWORD, AP_CHANNEL, AP_HIDDEN, AP_MAX_CONNECTIONS >>

\* A request to the radio: the function called, its arguments, its answer.
RadioCall(f, a, r) == [ fn |-> f, args |-> a, ok |-> r ]
NoCall == RadioCall("none", << >>, TRUE)

\* Inline numbers of the code.
HeartbeatPeriod == 5000
RecoveryDelay == 5000
LoopDelayMs == 10
SetupDelayMs == 1000
BufferSize == 512

States == { "INIT", "AP_STARTING", "AP_READY", "CLIENT_CONNECTED", "AA_ACTIVE", "ERROR" }

--------------------------------------------------------------------------
(* Bounds of the model *)

\* Width in bits of the unsigned words of the model (unsigned long and uint32_t
\* are 32 bits wide on the ESP32-C3): arithmetic on them is modulo 2^WordBits.
WordBits == 14
\* A behaviour is followed for MaxClock milliseconds.
MaxClock == 16000
\* A peer keeps at most MaxRx unread bytes buffered at the bridge.
MaxRx == 513
\* A behaviour that starts just before the clock wraps is followed for
\* WrapWindow milliseconds.
WrapWindow == 7500

\* The peers that may connect.
Clients == { "X", "Y" }
NoClient == "none"

\* Duration of one pass of loop(): delay(10) plus the time spent in the pass.
TickTimes == { t \in { 2500, 5000 } : t >= LoopDelayMs }
\* Sizes of the segments a peer sends: one full read buffer, and one byte more.
SendSizes == { BufferSize, BufferSize + 1 }

--------------------------------------------------------------------------
(* Unsigned arithmetic *)

RECURSIVE Pow2(_)
Pow2(n) == IF n = 0 THEN 1 ELSE 2 * Pow2(n - 1)

ULongMod == Pow2(WordBits)

\* Mutant of USub: the difference is taken on signed integers.
USub_NoWrap(a, b) == a - b

\* a - b on unsigned long
USub(a, b) == (a - b + ULongMod) % ULongMod

\* x + 1 on uint32_t
UInc(x) == (x + 1) % ULongMod

Min(a, b) == IF a <= b THEN a ELSE b

--------------------------------------------------------------------------
(* The socket layer: WiFiServer / WiFiClient as the code uses them *)

ClosedSock == [ st |-> "none", peerUp |-> FALSE, rx |-> 0 ]

\* aaServer.hasClient()
HasClient == backlog # << >>

\* h && h.connected(): the handle holds a socket whose peer is still connected
Connected(h) == h # NoClient /\ sock[h].st = "open" /\ sock[h].peerUp

\* h.available(): unread bytes buffered on the handle
Available(h) == IF h = NoClient THEN 0 ELSE sock[h].rx

\* h.stop(), and the release of the socket of a handle that is overwritten:
\* the socket table after handle h let go of its socket. Nothing to do on an
\* empty handle.
Released(s, h) == IF h = NoClient THEN s ELSE [ s EXCEPT ![h] = ClosedSock ]

\* aaServer.available(): the socket table after the oldest pending connection
\* was accepted
Accepted(s) == [ s EXCEPT ![Head(backlog)].st = "open" ]

\* The Session is live: the bridge is in CLIENT_CONNECTED or AA_ACTIVE.
SessionLive == currentState \in { "CLIENT_CONNECTED", "AA_ACTIVE" }

--------------------------------------------------------------------------
Init ==
    /\ currentState = "INIT"
    /\ lastHeartbeat = 0
    /\ clientConnectedTime = 0
    /\ heartbeatCount = 0
    /\ aaClient = NoClient
    /\ listening = FALSE
    /\ pc = "setup"
    /\ fromSetup = TRUE
    /\ now = 0
    /\ clock = 0
    /\ backlog = << >>
    /\ sock = [ c \in Clients |-> ClosedSock ]
    /\ radioOk = FALSE
    /\ radioLog = NoCall
    /\ failures = 0
    /\ gotData = FALSE
    /\ sessionEnded = FALSE
    /\ lateArrivals = {}
    /\ lastEnded = "none"
    /\ spent = 0
    /\ sinceBeat = 0

envVars == << backlog, sock, radioOk, lateArrivals >>
radioVars == << radioLog, failures >>
histVars == << gotData, sessionEnded, lastEnded >>
timeVars == << lastHeartbeat, heartbeatCount, now, clock, spent, sinceBeat >>


--------------------------------------------------------------------------
(* setupWiFiAP() *)

\* Where setupWiFiAP() returns to: setup() returns into the first pass of
\* loop(); the ERROR case of loop() breaks to the delay(10) that ends the pass.
ReturnPc == IF fromSetup THEN "loop" ELSE "delay"

\* What the radio may answer to a configuration or activation request.
RadioAnswers == IF radioOk THEN { TRUE } ELSE { TRUE, FALSE }

\* Mutant of EnterSetupWiFiAP: the assignment of AP_STARTING is missing.
EnterSetupWiFiAP_KeepState ==
    /\ pc' = "sw_config"
    /\ UNCHANGED currentState

\* Entry of setupWiFiAP(): the state is AP_STARTING while the radio is set up.
EnterSetupWiFiAP ==
    /\ currentState' = "AP_STARTING"
    /\ pc' = "sw_config"

\* setup(): serial start-up wait, banner, then setupWiFiAP().
Setup ==
    /\ pc = "setup"
    /\ clock' = (clock + SetupDelayMs) % ULongMod
    /\ spent' = spent + SetupDelayMs
    /\ sinceBeat' = sinceBeat + SetupDelayMs
    /\ fromSetup' = TRUE
    /\ EnterSetupWiFiAP
    /\ UNCHANGED << lastHeartbeat, clientConnectedTime, heartbeatCount, aaClient,
                    listening, now >>
    /\ UNCHANGED << envVars, radioVars, histVars >>

\* WiFi.softAPConfig(AP_IP, AP_GATEWAY, AP_SUBNET) and the test of its answer.
SoftAPConfigStep ==
    /\ pc = "sw_config"
    /\ \E ok \in RadioAnswers :
          /\ radioLog' = RadioCall("softAPConfig", SoftAPConfigCall, ok)
          /\ IF ~ok
             THEN /\ currentState' = "ERROR"
                  /\ failures' = failures + 1
                  /\ pc' = ReturnPc
             ELSE /\ pc' = "sw_softap"
                  /\ UNCHANGED << currentState, failures >>
    /\ UNCHANGED << clientConnectedTime, aaClient, listening, fromSetup >>
    /\ UNCHANGED << envVars, timeVars, histVars >>

\* Mutant of SoftAPStep: the final assignment of AP_READY is missing.
SoftAPStep_NoReady ==
    /\ pc = "sw_softap"
    /\ \E ok \in RadioAnswers :
          /\ radioLog' = RadioCall("softAP", SoftAPCall, ok)
          /\ IF ~ok
             THEN /\ currentState' = "ERROR"
                  /\ failures' = failures + 1
                  /\ UNCHANGED listening
             ELSE /\ listening' = TRUE
                  /\ UNCHANGED << currentState, failures >>
    /\ pc' = ReturnPc
    /\ UNCHANGED << clientConnectedTime, aaClient, fromSetup >>
    /\ UNCHANGED << envVars, timeVars, histVars >>

\* Mutant of SoftAPStep: aaServer.begin() is called before the answer of
\* WiFi.softAP() is tested.
SoftAPStep_ListenFirst ==
    /\ pc = "sw_softap"
    /\ \E ok \in RadioAnswers :
          /\ radioLog' = RadioCall("softAP", SoftAPCall, ok)
          /\ listening' = TRUE
          /\ IF ~ok
             THEN /\ currentState' = "ERROR"
                  /\ failures' = failures + 1
             ELSE /\ currentState' = "AP_READY"
                  /\ UNCHANGED failures
    /\ pc' = ReturnPc
    /\ UNCHANGED << clientConnectedTime, aaClient, fromSetup >>
    /\ UNCHANGED << envVars, timeVars, histVars >>

\* WiFi.softAP(...) and the test of its answer; on success the listener is
\* started and the state is AP_READY.
SoftAPStep ==
    /\ pc = "sw_softap"
    /\ \E ok \in RadioAnswers :
          /\ radioLog' = RadioCall("softAP", SoftAPCall, ok)
          /\ IF ~ok
             THEN /\ currentState' = "ERROR"
                  /\ failures' = failures + 1
                  /\ UNCHANGED listening
             ELSE /\ listening' = TRUE
                  /\ currentState' = "AP_READY"
                  /\ UNCHANGED failures
    /\ pc' = ReturnPc
    /\ UNCHANGED << clientConnectedTime, aaClient, fromSetup >>
    /\ UNCHANGED << envVars, timeVars, histVars >>

--------------------------------------------------------------------------
(* loop() *)

\* Mutant of HeartbeatDue: > for >=.
HeartbeatDue_Strict(n, last) == USub(n, last) > HeartbeatPeriod

\* now - lastHeartbeat >= 5000
HeartbeatDue(n, last) == USub(n, last) >= HeartbeatPeriod

\* Mutant of Loop: the firing writes clientConnectedTime in place of
\* lastHeartbeat.
Loop_WrongTimestamp ==
    /\ pc = "loop"
    /\ now' = clock
    /\ IF HeartbeatDue(clock, lastHeartbeat)
       THEN /\ clientConnectedTime' = clock
            /\ heartbeatCount' = UInc(heartbeatCount)
            /\ UNCHANGED << lastHeartbeat, sinceBeat >>
       ELSE UNCHANGED << lastHeartbeat, heartbeatCount, clientConnectedTime, sinceBeat >>
    /\ gotData' = FALSE
    /\ sessionEnded' = FALSE
    /\ lastEnded' = lastEnded
    /\ pc' = "switch"
    /\ UNCHANGED << currentState, aaClient, listening, fromSetup, clock, spent >>
    /\ UNCHANGED << envVars, radioVars >>

\* Mutant of Loop: heartbeatCount++ is outside the if.
Loop_CountEveryPass ==
    /\ pc = "loop"
    /\ now' = clock
    /\ heartbeatCount' = UInc(heartbeatCount)
    /\ IF HeartbeatDue(clock, lastHeartbeat)
       THEN /\ lastHeartbeat' = clock
            /\ sinceBeat' = 0
       ELSE UNCHANGED << lastHeartbeat, sinceBeat >>
    /\ gotData' = FALSE
    /\ sessionEnded' = FALSE
    /\ lastEnded' = lastEnded
    /\ pc' = "switch"
    /\ UNCHANGED << currentState, clientConnectedTime, aaClient, listening, fromSetup,
                    clock, spent >>
    /\ UNCHANGED << envVars, radioVars >>

\* Top of loop(): the clock is read and the heartbeat fires if it is due.
Loop ==
    /\ pc = "loop"
    /\ now' = clock
    /\ IF HeartbeatDue(clock, lastHeartbeat)
       THEN /\ lastHeartbeat' = clock
            /\ heartbeatCount' = UInc(heartbeatCount)
            /\ sinceBeat' = 0
       ELSE UNCHANGED << lastHeartbeat, heartbeatCount, sinceBeat >>
    /\ gotData' = FALSE
    /\ sessionEnded' = FALSE
    /\ lastEnded' = lastEnded
    /\ pc' = "switch"
    /\ UNCHANGED << currentState, clientConnectedTime, aaClient, listening, fromSetup,
                    clock, spent >>
    /\ UNCHANGED << envVars, radioVars >>

\* The test guarding the reject branch: aaClient && aaClient.connected()
ExistingClientLive == Connected(aaClient)

\* Mutant of ApReadyCase: the assignment of CLIENT_CONNECTED is missing.
ApReadyCase_NoTransition ==
    /\ IF HasClient
       THEN IF ExistingClientLive
            THEN /\ sock' = Released(Accepted(sock), Head(backlog))
                 /\ backlog' = Tail(backlog)
                 /\ UNCHANGED << aaClient, clientConnectedTime >>
            ELSE /\ aaClient' = Head(backlog)
                 /\ sock' = Accepted(Released(sock, aaClient))
                 /\ backlog' = Tail(backlog)
                 /\ clientConnectedTime' = IF sock[Head(backlog)].peerUp
                                           THEN now ELSE clientConnectedTime
       ELSE UNCHANGED << aaClient, sock, backlog, clientConnectedTime >>
    /\ pc' = "delay"
    /\ UNCHANGED << currentState, listening, fromSetup, radioOk, lateArrivals >>
    /\ UNCHANGED << radioVars, timeVars, histVars >>

\* Mutant of ApReadyCase: a connection that already has bytes buffered is
\* admitted straight into AA_ACTIVE.
ApReadyCase_EagerActive ==
    /\ IF HasClient
       THEN IF ExistingClientLive
            THEN /\ sock' = Released(Accepted(sock), Head(backlog))
                 /\ backlog' = Tail(backlog)
                 /\ UNCHANGED << aaClient, currentState, clientConnectedTime >>
            ELSE /\ aaClient' = Head(backlog)
                 /\ sock' = Accepted(Released(sock, aaClient))
                 /\ backlog' = Tail(backlog)
                 /\ IF sock[Head(backlog)].peerUp
                    THEN /\ currentState' = IF sock[Head(backlog)].rx > 0
                                            THEN "AA_ACTIVE" ELSE "CLIENT_CONNECTED"
                         /\ clientConnectedTime' = now
                    ELSE UNCHANGED << currentState, clientConnectedTime >>
       ELSE UNCHANGED << aaClient, sock, backlog, currentState, clientConnectedTime >>
    /\ pc' = "delay"
    /\ UNCHANGED << listening, fromSetup, radioOk, lateArrivals >>
    /\ UNCHANGED << radioVars, timeVars, histVars >>

\* Mutant of ApReadyCase: clientConnectedTime is not recorded at admission.
ApReadyCase_NoTimestamp ==
    /\ IF HasClient
       THEN IF ExistingClientLive
            THEN /\ sock' = Released(Accepted(sock), Head(backlog))
                 /\ backlog' = Tail(backlog)
                 /\ UNCHANGED << aaClient, currentState >>
            ELSE /\ aaClient' = Head(backlog)
                 /\ sock' = Accepted(Released(sock, aaClient))
                 /\ backlog' = Tail(backlog)
                 /\ currentState' = IF sock[Head(backlog)].peerUp
                                    THEN "CLIENT_CONNECTED" ELSE currentState
       ELSE UNCHANGED << aaClient, sock, backlog, currentState >>
    /\ pc' = "delay"
    /\ UNCHANGED << clientConnectedTime, listening, fromSetup, radioOk, lateArrivals >>
    /\ UNCHANGED << radioVars, timeVars, histVars >>

\* case State::AP_READY
ApReadyCase ==
    /\ IF HasClient
       THEN IF ExistingClientLive
            THEN \* reject: accept the pending connection into a temporary and stop it
                 /\ sock' = Released(Accepted(sock), Head(backlog))
                 /\ backlog' = Tail(backlog)
                 /\ UNCHANGED << aaClient, currentState, clientConnectedTime >>
            ELSE \* aaClient = aaServer.available(): the old handle lets go of its socket
                 /\ aaClient' = Head(backlog)
                 /\ sock' = Accepted(Released(sock, aaClient))
                 /\ backlog' = Tail(backlog)
                 /\ IF sock[Head(backlog)].peerUp
                    THEN /\ currentState' = "CLIENT_CONNECTED"
                         /\ clientConnectedTime' = now
                    ELSE UNCHANGED << currentState, clientConnectedTime >>
       ELSE UNCHANGED << aaClient, sock, backlog, currentState, clientConnectedTime >>
    /\ pc' = "delay"
    /\ UNCHANGED << listening, fromSetup, radioOk, lateArrivals >>
    /\ UNCHANGED << radioVars, timeVars, histVars >>

\* Mutant of HandleClient: the liveness test is inverted.
HandleClient_InvertedTest ==
    /\ IF Connected(aaClient)
       THEN /\ currentState' = "AP_READY"
            /\ sock' = Released(sock, aaClient)
            /\ aaClient' = NoClient
            /\ sessionEnded' = TRUE
            /\ lastEnded' = currentState
            /\ pc' = "delay"
       ELSE /\ pc' = "hc_while"
            /\ UNCHANGED << currentState, sock, aaClient, sessionEnded, lastEnded >>
    /\ UNCHANGED << clientConnectedTime, listening, fromSetup, gotData, backlog,
                    radioOk, lateArrivals >>
    /\ UNCHANGED << radioVars, timeVars >>

\* Mutant of HandleClient: buffered bytes are drained before the Session of a
\* disconnected peer is ended.
HandleClient_DrainFirst ==
    /\ IF ~Connected(aaClient) /\ Available(aaClient) = 0
       THEN /\ currentState' = "AP_READY"
            /\ sock' = Released(sock, aaClient)
            /\ aaClient' = NoClient
            /\ sessionEnded' = TRUE
            /\ lastEnded' = currentState
            /\ pc' = "delay"
       ELSE /\ pc' = "hc_while"
            /\ UNCHANGED << currentState, sock, aaClient, sessionEnded, lastEnded >>
    /\ UNCHANGED << clientConnectedTime, listening, fromSetup, gotData, backlog,
                    radioOk, lateArrivals >>
    /\ UNCHANGED << radioVars, timeVars >>

\* Mutant of HandleClient: the end of a Session is treated as a failure.
HandleClient_ErrorOnDisconnect ==
    /\ IF ~Connected(aaClient)
       THEN /\ currentState' = "ERROR"
            /\ sock' = Released(sock, aaClient)
            /\ aaClient' = NoClient
            /\ sessionEnded' = TRUE
            /\ lastEnded' = currentState
            /\ pc' = "delay"
       ELSE /\ pc' = "hc_while"
            /\ UNCHANGED << currentState, sock, aaClient, sessionEnded, lastEnded >>
    /\ UNCHANGED << clientConnectedTime, listening, fromSetup, gotData, backlog,
                    radioOk, lateArrivals >>
    /\ UNCHANGED << radioVars, timeVars >>

\* Mutant of HandleClient: when the Session has ended and a connection is
\* pending, it is accepted at once.
HandleClient_AdmitNext ==
    /\ IF ~Connected(aaClient)
       THEN /\ sessionEnded' = TRUE
            /\ lastEnded' = currentState
            /\ pc' = "delay"
            /\ IF HasClient
               THEN /\ aaClient' = Head(backlog)
                    /\ sock' = Accepted(Released(sock, aaClient))
                    /\ backlog' = Tail(backlog)
                    /\ currentState' = "CLIENT_CONNECTED"
                    /\ clientConnectedTime' = now
               ELSE /\ currentState' = "AP_READY"
                    /\ sock' = Released(sock, aaClient)
                    /\ aaClient' = NoClient
                    /\ UNCHANGED << backlog, clientConnectedTime >>
       ELSE /\ pc' = "hc_while"
            /\ UNCHANGED << currentState, sock, aaClient, sessionEnded, lastEnded,
                            backlog, clientConnectedTime >>
    /\ UNCHANGED << listening, fromSetup, gotData, radioOk, lateArrivals >>
    /\ UNCHANGED << radioVars, timeVars >>

\* handleClient(), up to the while loop: the liveness test of the Session.
HandleClient ==
    /\ IF ~Connected(aaClient)
       THEN /\ currentState' = "AP_READY"
            /\ sock' = Released(sock, aaClient)
            /\ aaClient' = NoClient
            /\ sessionEnded' = TRUE
            /\ lastEnded' = currentState
            /\ pc' = "delay"
       ELSE /\ pc' = "hc_while"
            /\ UNCHANGED << currentState, sock, aaClient, sessionEnded, lastEnded >>
    /\ UNCHANGED << clientConnectedTime, listening, fromSetup, gotData, backlog,
                    radioOk, lateArrivals >>
    /\ UNCHANGED << radioVars, timeVars >>

\* Mutant of ErrorCase: the delay(5000) is missing.
ErrorCase_NoDelay ==
    /\ fromSetup' = FALSE
    /\ EnterSetupWiFiAP
    /\ UNCHANGED << lastHeartbeat, heartbeatCount, now, clock, spent, sinceBeat,
                    clientConnectedTime,
                    aaClient, listening >>
    /\ UNCHANGED << envVars, radioVars, histVars >>

\* Mutant of ErrorCase: the retry is given up after two failures.
ErrorCase_GiveUp ==
    /\ IF failures < 2
       THEN /\ spent + RecoveryDelay <= MaxClock
            /\ clock' = (clock + RecoveryDelay) % ULongMod
            /\ spent' = spent + RecoveryDelay
            /\ sinceBeat' = sinceBeat + RecoveryDelay
            /\ fromSetup' = FALSE
            /\ EnterSetupWiFiAP
       ELSE /\ pc' = "delay"
            /\ UNCHANGED << clock, spent, sinceBeat, fromSetup, currentState >>
    /\ UNCHANGED << lastHeartbeat, heartbeatCount, now, clientConnectedTime, aaClient,
                    listening >>
    /\ UNCHANGED << envVars, radioVars, histVars >>

\* case State::ERROR: delay(5000), then setupWiFiAP()
ErrorCase ==
    /\ spent + RecoveryDelay <= MaxClock
    /\ clock' = (clock + RecoveryDelay) % ULongMod
    /\ spent' = spent + RecoveryDelay
    /\ sinceBeat' = sinceBeat + RecoveryDelay
    /\ fromSetup' = FALSE
    /\ EnterSetupWiFiAP
    /\ UNCHANGED << lastHeartbeat, heartbeatCount, now, clientConnectedTime, aaClient,
                    listening >>
    /\ UNCHANGED << envVars, radioVars, histVars >>

\* default: break
DefaultCase ==
    /\ pc' = "delay"
    /\ UNCHANGED << currentState, clientConnectedTime, aaClient, listening, fromSetup >>
    /\ UNCHANGED << envVars, radioVars, timeVars, histVars >>

\* switch (currentState)
LoopSwitch ==
    /\ pc = "switch"
    /\ IF currentState = "AP_READY" THEN ApReadyCase
       ELSE IF currentState \in { "CLIENT_CONNECTED", "AA_ACTIVE" } THEN HandleClient
       ELSE IF currentState = "ERROR" THEN ErrorCase
       ELSE DefaultCase

\* aaClient.read(buffer, sizeof(buffer)): the length read from handle h
ReadLen(h) == Min(Available(h), BufferSize)

\* Mutant of DrainStep: the transition to AA_ACTIVE is missing.
DrainStep_NoActivity ==
    /\ pc = "hc_while"
    /\ IF Available(aaClient) # 0
       THEN LET len == Min(Available(aaClient), BufferSize) IN
            /\ sock' = [ sock EXCEPT ![aaClient].rx = @ - len ]
            /\ gotData' = (gotData \/ len > 0)
            /\ pc' = "hc_while"
       ELSE /\ pc' = "delay"
            /\ UNCHANGED << sock, gotData >>
    /\ UNCHANGED << currentState, clientConnectedTime, aaClient, listening, fromSetup,
                    backlog, radioOk, lateArrivals, sessionEnded, lastEnded >>
    /\ UNCHANGED << radioVars, timeVars >>

\* One test of while (aaClient.available()) and, if it passes, one pass of the body.
DrainStep ==
    /\ pc = "hc_while"
    /\ IF Available(aaClient) # 0
       THEN LET len == ReadLen(aaClient) IN
            /\ sock' = [ sock EXCEPT ![aaClient].rx = @ - len ]
            /\ IF len > 0
               THEN /\ gotData' = TRUE
                    /\ currentState' = IF currentState = "CLIENT_CONNECTED"
                                       THEN "AA_ACTIVE" ELSE currentState
               ELSE UNCHANGED << gotData, currentState >>
            /\ pc' = "hc_while"
       ELSE /\ pc' = "delay"
            /\ UNCHANGED << sock, gotData, currentState >>
    /\ UNCHANGED << clientConnectedTime, aaClient, listening, fromSetup, backlog,
                    radioOk, lateArrivals, sessionEnded, lastEnded >>
    /\ UNCHANGED << radioVars, timeVars >>

\* delay(10) at the end of loop(); the next pass starts t ms after this one did.
LoopDelay ==
    /\ pc = "delay"
    /\ \E t \in TickTimes :
          /\ spent + t <= MaxClock
          /\ clock' = (clock + t) % ULongMod
          /\ spent' = spent + t
          /\ sinceBeat' = sinceBeat + t
    /\ pc' = "loop"
    /\ UNCHANGED << currentState, lastHeartbeat, heartbeatCount, now, clientConnectedTime,
                    aaClient, listening, fromSetup >>
    /\ UNCHANGED << envVars, radioVars, histVars >>

--------------------------------------------------------------------------
(* The environment: TCP peers and the radio *)

bridgeVars == << currentState, clientConnectedTime, aaClient, listening, pc, fromSetup,
                 gotData, sessionEnded, lastEnded >>

\* Peer c completes a TCP connection to the listener: it is pending until accepted.
ClientConnect(c) ==
    /\ listening
    /\ sock[c].st = "none"
    /\ sock' = [ sock EXCEPT ![c] = [ st |-> "pending", peerUp |-> TRUE, rx |-> 0 ] ]
    /\ backlog' = Append(backlog, c)
    /\ lateArrivals' = IF SessionLive /\ Connected(aaClient)
                       THEN lateArrivals \cup { c }
                       ELSE lateArrivals \ { c }
    /\ UNCHANGED << bridgeVars, radioOk, radioVars, timeVars >>

\* Peer c sends n bytes on its connection.
ClientSend(c, n) ==
    /\ sock[c].st \in { "pending", "open" }
    /\ sock[c].peerUp
    /\ sock[c].rx + n <= MaxRx
    /\ sock' = [ sock EXCEPT ![c].rx = @ + n ]
    /\ UNCHANGED << bridgeVars, backlog, radioOk, lateArrivals, radioVars, timeVars >>

\* Peer c closes its end of the connection.
ClientClose(c) ==
    /\ sock[c].st \in { "pending", "open" }
    /\ sock[c].peerUp
    /\ sock' = [ sock EXCEPT ![c].peerUp = FALSE ]
    /\ UNCHANGED << bridgeVars, backlog, radioOk, lateArrivals, radioVars, timeVars >>

\* The radio becomes healthy: from now on it accepts every request.
RadioRecover ==
    /\ ~radioOk
    /\ radioOk' = TRUE
    /\ UNCHANGED << bridgeVars, backlog, sock, lateArrivals, radioVars, timeVars >>

--------------------------------------------------------------------------
\* The steps of the firmware's single thread.
Firmware ==
    \/ Setup
    \/ SoftAPConfigStep
    \/ SoftAPStep
    \/ Loop
    \/ LoopSwitch
    \/ DrainStep
    \/ LoopDelay

Environment ==
    \/ \E c \in Clients : ClientConnect(c)
    \/ \E c \in Clients : \E n \in SendSizes : ClientSend(c, n)
    \/ \E c \in Clients : ClientClose(c)
    \/ RadioRecover

Next == Firmware \/ Environment

Spec == Init /\ [][Next]_vars

\* The processor keeps executing the firmware; nothing is assumed of the peers
\* and the radio.
FairSpec == Spec /\ WF_vars(Firmware)

\* The bridge long after start-up, idle in AP_READY at the top of a pass of
\* loop(): millis() is about to wrap, the heartbeat last fired less than a
\* period ago, in the pass before this one, and heartbeatCount is small or
\* about to wrap.
WrapInit ==
    /\ currentState = "AP_READY"
    /\ pc = "loop"
    /\ listening = TRUE
    /\ fromSetup = TRUE
    /\ radioOk = TRUE
    /\ radioLog = RadioCall("softAP", SoftAPCall, TRUE)
    /\ failures = 0
    /\ aaClient = NoClient
    /\ clientConnectedTime = 0
    /\ backlog = << >>
    /\ sock = [ c \in Clients |-> ClosedSock ]
    /\ gotData = FALSE
    /\ sessionEnded = FALSE
    /\ lateArrivals = {}
    /\ lastEnded = "none"
    /\ clock \in { ULongMod - 2500, ULongMod - 1 }
    /\ sinceBeat \in { 2499, 2500, 2501 }
    /\ lastHeartbeat = clock - sinceBeat
    /\ now = lastHeartbeat
    /\ heartbeatCount \in { 1, ULongMod - 1 }
    /\ spent = MaxClock - WrapWindow

\* The steps possible once the access point is up.
WrapNext ==
    \/ Loop
    \/ LoopSwitch
    \/ DrainStep
    \/ LoopDelay
    \/ \E c \in Clients : ClientConnect(c)
    \/ \E c \in Clients : \E n \in SendSizes : ClientSend(c, n)
    \/ \E c \in Clients : ClientClose(c)

WrapSpec == WrapInit /\ [][WrapNext]_vars


--------------------------------------------------------------------------
(* Properties *)

\* The sockets the bridge has accepted and not yet let go of.
OpenSocks == { c \in Clients : sock[c].st = "open" }

\* A step of the firmware leaves the position pc (DrainStep alone may stay).
LeavesPc == pc' # pc

\* C1: a connection that becomes pending while a Session with a connected peer
\* is live is rejected: it never becomes the live Session.
C1_LateArrivalNeverAdmitted ==
    \A c \in lateArrivals : ~(SessionLive /\ aaClient = c)

\* C2: the bridge holds at most one open accepted connection, the one of
\* aaClient, and no step takes aaClient away from a socket whose peer is still
\* connected: a Session with a connected peer is never replaced or dropped.
C2_SingleSession ==
    /\ [](OpenSocks \subseteq { aaClient } /\ Cardinality(OpenSocks) <= 1)
    /\ [][Connected(aaClient) => aaClient' = aaClient]_vars

\* A Session with a connected peer is live at the end of a pass while another
\* connection, whose peer is connected too, is pending at the listener.
C2_Witness ==
    /\ pc = "delay"
    /\ SessionLive
    /\ Connected(aaClient)
    /\ HasClient
    /\ sock[Head(backlog)].peerUp

\* The rows of the transition table.
TransitionTable ==
    { << "INIT", "AP_STARTING" >>,
      << "AP_STARTING", "AP_READY" >>,
      << "AP_STARTING", "ERROR" >>,
      << "AP_READY", "CLIENT_CONNECTED" >>,
      << "CLIENT_CONNECTED", "AA_ACTIVE" >>,
      << "CLIENT_CONNECTED", "AP_READY" >>,
      << "AA_ACTIVE", "AP_READY" >>,
      << "ERROR", "AP_STARTING" >> }

\* C3: every change of currentState is a row of the transition table.
C3_TransitionTable ==
    [][currentState' # currentState
         => << currentState, currentState' >> \in TransitionTable]_vars

\* A Session is active after a bring-up that first failed: the run went through
\* INIT, AP_STARTING, ERROR, AP_STARTING, AP_READY, CLIENT_CONNECTED, AA_ACTIVE.
C3_Witness ==
    /\ currentState = "AA_ACTIVE"
    /\ ~fromSetup

\* C4: when the switch dispatches a live Session whose peer is no longer
\* connected, the pass ends with AP_READY and the handle released, without a
\* read and without an activity transition, whatever is still buffered.
C4_DisconnectEndsSession ==
    [][(pc = "switch" /\ LeavesPc /\ SessionLive /\ ~Connected(aaClient))
         => /\ currentState' = "AP_READY"
            /\ aaClient' = NoClient
            /\ OpenSocks' = {}
            /\ pc' = "delay"
            /\ ~gotData'
            /\ sessionEnded']_vars

\* handleClient() has ended the Session in this pass, and the pass read nothing.
C4_Witness ==
    /\ pc = "delay"
    /\ sessionEnded
    /\ currentState = "AP_READY"
    /\ aaClient = NoClient
    /\ ~gotData

\* C5: a pass with a non-empty read ends in AA_ACTIVE; CLIENT_CONNECTED becomes
\* AA_ACTIVE only in a step whose read was non-empty; AA_ACTIVE is left only by
\* ending the Session, never back to CLIENT_CONNECTED.
C5_ActivityMonotone ==
    /\ []((gotData /\ SessionLive) => currentState = "AA_ACTIVE")
    /\ [][(currentState = "CLIENT_CONNECTED" /\ currentState' = "AA_ACTIVE")
            => (gotData' /\ aaClient' = aaClient)]_vars
    /\ [][(currentState = "CLIENT_CONNECTED" /\ pc = "hc_while" /\ LeavesPc)
            => (~gotData /\ currentState' = "CLIENT_CONNECTED")]_vars
    /\ [][(currentState = "AA_ACTIVE" /\ currentState' # "AA_ACTIVE")
            => (currentState' = "AP_READY" /\ aaClient' = NoClient)]_vars

\* A pass without any read ends with the Session still AA_ACTIVE.
C5_Witness ==
    /\ pc = "delay"
    /\ currentState = "AA_ACTIVE"
    /\ Connected(aaClient)
    /\ ~gotData

\* C6: a refused request leaves the bridge in ERROR until the next dispatch; the
\* dispatch in ERROR waits RecoveryDelay and re-enters AP_STARTING at the address
\* configuration; every request carries the configured values.
C6_BringUpFailure ==
    /\ [][(pc \in { "sw_config", "sw_softap" } /\ LeavesPc /\ ~radioLog'.ok)
            => (currentState' = "ERROR" /\ pc' \in { "loop", "delay" })]_vars
    /\ [](currentState = "ERROR" => (~radioLog.ok /\ pc \in { "loop", "switch", "delay" }))
    /\ [](pc \in { "sw_config", "sw_softap" } => currentState = "AP_STARTING")
    /\ [](radioLog.fn = "softAPConfig" => radioLog.args = << AP_IP, AP_GATEWAY, AP_SUBNET >>)
    /\ [](radioLog.fn = "softAP" =>
            radioLog.args = << AP_SSID, AP_PASSWORD, AP_CHANNEL, AP_HIDDEN,
                               AP_MAX_CONNECTIONS >>)
    /\ [][(pc = "switch" /\ LeavesPc /\ currentState = "ERROR")
            => /\ currentState' = "AP_STARTING"
               /\ pc' = "sw_config"
               /\ clock' = (clock + 5000) % ULongMod]_vars
    /\ [][(pc = "sw_config" /\ LeavesPc) => radioLog'.fn = "softAPConfig"]_vars
    /\ [][(pc = "sw_softap" /\ LeavesPc)
            => (radioLog'.fn = "softAP" /\ radioLog.fn = "softAPConfig" /\ radioLog.ok)]_vars

\* The activation was refused in a retry: the address configuration before it
\* was repeated and accepted.
C6_Witness ==
    /\ currentState = "ERROR"
    /\ failures >= 2
    /\ radioLog.fn = "softAP"
    /\ ~radioLog.ok

\* C8: the top of every pass fires the heartbeat exactly when the clock is at
\* least 5000 ms past lastHeartbeat, and records the clock; no other step fires.
C8_Heartbeat ==
    /\ [][(pc = "loop" /\ LeavesPc) =>
            IF (clock - lastHeartbeat + ULongMod) % ULongMod >= 5000
            THEN /\ heartbeatCount' = (heartbeatCount + 1) % ULongMod
                 /\ lastHeartbeat' = clock
                 /\ now' = clock
            ELSE UNCHANGED << heartbeatCount, lastHeartbeat >>]_vars
    /\ [][pc # "loop" => UNCHANGED << heartbeatCount, lastHeartbeat >>]_vars

\* The heartbeat has fired, for the second time, at the top of a pass that is
\* dispatched in ERROR.
C8_Witness ==
    /\ pc = "switch"
    /\ currentState = "ERROR"
    /\ heartbeatCount = 2
    /\ lastHeartbeat = now

\* The bring-up started from ERROR has time to finish before the clock reaches the
\* end of the model's time.
RetryInTime == clock + 5000 + 5000 <= MaxClock

\* C7: every dispatch in ERROR retries the bring-up after the same 5000 ms,
\* whatever the number of failures so far; and once the radio accepts every
\* request, ERROR leads to AP_READY.
C7_RecoveryUnbounded ==
    /\ [][(pc = "switch" /\ LeavesPc /\ currentState = "ERROR")
            => /\ pc' = "sw_config"
               /\ clock' = (clock + 5000) % ULongMod
               /\ failures' = failures]_vars
    /\ [](currentState = "ERROR" => failures >= 1)
    /\ ((radioOk /\ currentState = "ERROR" /\ RetryInTime) ~> (currentState = "AP_READY"))

\* AP_READY was reached by the retry that followed two failed bring-ups in a
\* row, the radio having recovered.
C7_Witness ==
    /\ currentState = "AP_READY"
    /\ ~fromSetup
    /\ failures = 2
    /\ radioOk
    /\ radioLog.ok

\* C9: the while loop of handleClient() ends, for every behaviour of the peer.
C9_DrainTerminates == (pc = "hc_while") ~> (pc = "delay")

\* The switch dispatches AP_READY with a connection pending and no live Session.
AdmissionStep ==
    /\ pc = "switch"
    /\ LeavesPc
    /\ currentState = "AP_READY"
    /\ HasClient
    /\ ~Connected(aaClient)

\* C11, as claimed: every pass that finds a connection pending in AP_READY with
\* no live Session ends in CLIENT_CONNECTED with clientConnectedTime = now, also
\* when the pending peer has already gone away.
C11_AdmissionAlways ==
    [][AdmissionStep
         => /\ currentState' = "CLIENT_CONNECTED"
            /\ clientConnectedTime' = now]_vars

\* C11, amended: the pending connection is always accepted into aaClient; the
\* pass ends in CLIENT_CONNECTED with clientConnectedTime = now (the clock read
\* at the top of the pass) when its peer is still connected, and leaves AP_READY
\* and clientConnectedTime as they were when its peer has gone away.
C11_AdmissionIfPeerUp ==
    [][AdmissionStep
         => /\ aaClient' = Head(backlog)
            /\ backlog' = Tail(backlog)
            /\ sock'[Head(backlog)].st = "open"
            /\ pc' = "delay"
            /\ now' = now
            /\ IF sock[Head(backlog)].peerUp
               THEN /\ currentState' = "CLIENT_CONNECTED"
                    /\ clientConnectedTime' = now
               ELSE /\ currentState' = "AP_READY"
                    /\ clientConnectedTime' = clientConnectedTime]_vars

\* A connection was admitted in this pass, at a clock value other than that of
\* the admission before it.
C11_Witness ==
    /\ pc = "delay"
    /\ currentState = "CLIENT_CONNECTED"
    /\ Connected(aaClient)
    /\ clientConnectedTime = now
    /\ now > 1000 + 2500

\* C12: after handleClient() ended a Session, whether that Session had reached
\* AA_ACTIVE or not, the next admission is made by the AP_READY case into
\* CLIENT_CONNECTED, never into AA_ACTIVE, with clientConnectedTime set to the
\* clock read of the admitting pass and no read made yet, also when the new peer
\* has already sent bytes; AA_ACTIVE is entered only from CLIENT_CONNECTED, on
\* the same handle, by a read of that pass that returned bytes.
C12_FreshAdmission ==
    /\ [][(AdmissionStep /\ lastEnded # "none")
            => /\ currentState' \in { "CLIENT_CONNECTED", "AP_READY" }
               /\ currentState' = "CLIENT_CONNECTED"
                    => /\ clientConnectedTime' = now
                       /\ aaClient' = Head(backlog)
                       /\ ~gotData'
                       /\ sock'[aaClient'].rx = sock[Head(backlog)].rx]_vars
    /\ [][(currentState # "CLIENT_CONNECTED" /\ currentState' = "CLIENT_CONNECTED")
            => /\ currentState = "AP_READY"
               /\ pc = "switch"
               /\ clientConnectedTime' = now]_vars
    /\ [][(currentState # "AA_ACTIVE" /\ currentState' = "AA_ACTIVE")
            => /\ currentState = "CLIENT_CONNECTED"
               /\ pc = "hc_while"
               /\ aaClient' = aaClient
               /\ gotData'
               /\ sock'[aaClient].rx < sock[aaClient].rx]_vars

\* A Session that had reached AA_ACTIVE ended earlier; a peer that has already
\* sent bytes was admitted in this pass and is in CLIENT_CONNECTED, its bytes
\* still unread.
C12_Witness ==
    /\ lastEnded = "AA_ACTIVE"
    /\ pc = "delay"
    /\ currentState = "CLIENT_CONNECTED"
    /\ Connected(aaClient)
    /\ clientConnectedTime = now
    /\ Available(aaClient) > 0

\* C13: the step of setupWiFiAP() in which WiFi.softAP() succeeds, after
\* WiFi.softAPConfig() succeeded, ends in AP_READY with the listener started,
\* no Session handle held, no socket open and nothing pending; the listener is
\* started by that step only, so it is not started in INIT, AP_STARTING or
\* ERROR; a cold start leaves INIT for AP_STARTING only, and when its first
\* bring-up succeeds the bridge is serving with the listener started.
C13_BringUpSuccess ==
    /\ [][(pc = "sw_softap" /\ LeavesPc /\ radioLog'.ok)
            => /\ currentState = "AP_STARTING"
               /\ currentState' = "AP_READY"
               /\ radioLog.fn = "softAPConfig" /\ radioLog.ok
               /\ ~listening /\ listening'
               /\ aaClient' = NoClient
               /\ OpenSocks' = {}
               /\ backlog' = << >>]_vars
    /\ [][listening' # listening
            => /\ pc = "sw_softap"
               /\ radioLog' = RadioCall("softAP", SoftAPCall, TRUE)
               /\ currentState' = "AP_READY"]_vars
    /\ [](currentState \in { "INIT", "AP_STARTING", "ERROR" } => ~listening)
    /\ [][currentState = "INIT" => currentState' \in { "INIT", "AP_STARTING" }]_vars
    /\ []((fromSetup /\ failures = 0 /\ pc \notin { "setup", "sw_config", "sw_softap" })
            => (listening /\ currentState \in { "AP_READY", "CLIENT_CONNECTED",
                                                "AA_ACTIVE" }))

\* A cold start whose first bring-up succeeded, before the first pass of loop().
C13_Witness ==
    /\ pc = "loop"
    /\ now = 0
    /\ fromSetup
    /\ failures = 0
    /\ currentState = "AP_READY"
    /\ listening
    /\ radioLog = RadioCall("softAP", SoftAPCall, TRUE)
    /\ aaClient = NoClient

\* C14: a step in which the heartbeat fires (heartbeatCount or lastHeartbeat
\* changes) is the top of a pass of loop() and leaves currentState, aaClient,
\* clientConnectedTime, the listener, the sockets and the pending connections
\* as they were, in whichever state it fires.
C14_HeartbeatFrame ==
    [][(heartbeatCount' # heartbeatCount \/ lastHeartbeat' # lastHeartbeat)
         => /\ pc = "loop"
            /\ pc' = "switch"
            /\ UNCHANGED << currentState, aaClient, clientConnectedTime, listening,
                            sock, backlog, clock >>]_vars

\* The heartbeat has just fired, for the second time at least, while a Session
\* that was admitted at another clock value is in AA_ACTIVE.
C14_Witness ==
    /\ pc = "switch"
    /\ lastHeartbeat = now
    /\ heartbeatCount >= 2
    /\ currentState = "AA_ACTIVE"
    /\ aaClient # NoClient
    /\ clientConnectedTime # now
    /\ clientConnectedTime > 0

\* C15: the step in which handleClient() ends the Session accepts nothing and
\* ends the pass in AP_READY with no handle; no pending connection is accepted
\* in the rest of that pass; every accept is made by the switch of a pass that
\* started in AP_READY and in which no Session was ended.
C15_NoAdmissionInDisconnectTick ==
    /\ [][(sessionEnded' /\ ~sessionEnded)
            => /\ pc = "switch" /\ pc' = "delay"
               /\ backlog' = backlog
               /\ currentState' = "AP_READY"
               /\ aaClient' = NoClient
               /\ UNCHANGED clientConnectedTime]_vars
    /\ [][sessionEnded
            => /\ Len(backlog') >= Len(backlog)
               /\ aaClient' = NoClient
               /\ currentState' = "AP_READY"]_vars
    /\ [][Len(backlog') < Len(backlog)
            => /\ pc = "switch"
               /\ currentState = "AP_READY"
               /\ ~sessionEnded]_vars
    /\ [][pc = "loop" => currentState' = currentState]_vars

\* A connection is pending at the end of the pass in which handleClient() ended
\* the Session: it was not accepted in that pass.
C15_Witness ==
    /\ pc = "delay"
    /\ sessionEnded
    /\ HasClient
    /\ sock[Head(backlog)].peerUp
    /\ currentState = "AP_READY"
    /\ aaClient = NoClient

\* The states in which the bridge serves: the access point is up.
Serving == { "AP_READY", "CLIENT_CONNECTED", "AA_ACTIVE" }

\* C17: ERROR is entered only from AP_STARTING, by the step of setupWiFiAP()
\* whose request the radio refused; from AP_READY, CLIENT_CONNECTED or
\* AA_ACTIVE the next state is again one of these three, so ERROR, AP_STARTING
\* and INIT are never entered once AP_READY was reached (the listener started).
C17_ServingClosed ==
    /\ [][(currentState \in Serving) => (currentState' \in Serving)]_vars
    /\ [][(currentState # "ERROR" /\ currentState' = "ERROR")
            => /\ currentState = "AP_STARTING"
               /\ pc \in { "sw_config", "sw_softap" }
               /\ ~radioLog'.ok]_vars
    /\ [](listening => currentState \in Serving)
    /\ [](currentState \in Serving => listening)

\* AP_READY again, at the top of a pass, after a failed bring-up, a recovery and
\* a Session that reached AA_ACTIVE and ended.
C17_Witness ==
    /\ pc = "loop"
    /\ currentState = "AP_READY"
    /\ failures >= 1
    /\ lastEnded = "AA_ACTIVE"
    /\ aaClient = NoClient

LoopStates == Serving \cup { "ERROR" }

\* C19: from the top of a pass of loop() to its end, currentState is AP_READY,
\* CLIENT_CONNECTED, AA_ACTIVE or ERROR: the switch never takes the default
\* branch and no heartbeat fires in INIT or AP_STARTING, which occur only in
\* setup() and inside setupWiFiAP().
C19_LoopStates ==
    /\ [](pc \in { "loop", "switch", "hc_while", "delay" }
            => currentState \in LoopStates)
    /\ [](currentState \in { "INIT", "AP_STARTING" }
            => pc \in { "setup", "sw_config", "sw_softap" })
    /\ [][heartbeatCount' # heartbeatCount
            => currentState \in LoopStates]_vars

\* The top of a pass that starts in ERROR after two failed bring-ups, the
\* second one made from loop(): setupWiFiAP() has returned to loop() in ERROR.
C19_Witness ==
    /\ pc = "loop"
    /\ currentState = "ERROR"
    /\ ~fromSetup
    /\ failures >= 2
    /\ heartbeatCount >= 1

\* C20: at the top of a pass whose clock reading has wrapped past zero since
\* lastHeartbeat was set (it is below lastHeartbeat), less than 2^w ms after it
\* was set, the heartbeat fires exactly when at least 5000 ms have really
\* passed since then, and a firing records the wrapped reading; the unsigned
\* difference of the two registers is the time that really passed, modulo 2^w.
C20_WrapSafe ==
    /\ [][(pc = "loop" /\ LeavesPc /\ clock < lastHeartbeat /\ sinceBeat < ULongMod)
            => /\ (heartbeatCount' # heartbeatCount) <=> (sinceBeat >= 5000)
               /\ (lastHeartbeat' # lastHeartbeat) <=> (sinceBeat >= 5000)
               /\ sinceBeat >= 5000 => (lastHeartbeat' = clock /\ sinceBeat' = 0)]_vars
    /\ []((clock - lastHeartbeat + ULongMod) % ULongMod = sinceBeat % ULongMod)

\* The heartbeat has just fired on a clock reading that wrapped past zero, and
\* the reading is numerically below the period.
C20_Witness ==
    /\ pc = "switch"
    /\ lastHeartbeat = now
    /\ sinceBeat = 0
    /\ now < 5000
    /\ spent > MaxClock - WrapWindow

\* The heartbeat fires in this step: lastHeartbeat is set to a new reading.
Firing == lastHeartbeat' # lastHeartbeat

\* C16, as claimed: heartbeatCount increases by exactly 1 at each firing, is
\* changed by no other step, and never decreases.
C16_CounterNeverDecreases ==
    /\ [][IF Firing THEN heartbeatCount' = heartbeatCount + 1
                    ELSE heartbeatCount' = heartbeatCount]_vars
    /\ [][heartbeatCount' >= heartbeatCount]_vars

\* C16, amended: heartbeatCount is a w-bit unsigned word that each firing
\* increases by 1 modulo 2^w and no other step changes; it decreases only in the
\* firing that wraps it from 2^w - 1 to 0.
C16_CounterModular ==
    /\ [][IF Firing THEN heartbeatCount' = (heartbeatCount + 1) % ULongMod
                    ELSE heartbeatCount' = heartbeatCount]_vars
    /\ [][heartbeatCount' < heartbeatCount
            => (heartbeatCount = ULongMod - 1 /\ heartbeatCount' = 0)]_vars
    /\ [](heartbeatCount \in 0 .. ULongMod - 1)

\* The heartbeat has just fired and the counter has wrapped to 0.
C16_Witness ==
    /\ pc = "switch"
    /\ lastHeartbeat = now
    /\ sinceBeat = 0
    /\ heartbeatCount = 0

==========================================================================
